---- MODULE Spec2Model ----
(***************************************************************************)
(* Model of src/main.rs of breez_sdk_3hour_workshop: the chat-gpt          *)
(* subcommand (HTTP-402 / L402 exchange) and the lnurl-withdraw            *)
(* subcommand.  Header values and credentials are sequences of             *)
(* one-character strings, so that the regular expression and format! are   *)
(* modelled by what they do to the characters.                             *)
(***************************************************************************)
EXTENDS Integers, Sequences, FiniteSets, TLC

VARIABLES command, pc, outcome, req, posts, resps, resp, token, invoice,
          payresult, pays, text, parsed, withdrawals, delivered, listenerLog

vars == <<command, pc, outcome, req, posts, resps, resp, token, invoice,
          payresult, pays, text, parsed, withdrawals, delivered, listenerLog>>

\* ---------------------------------------------------------------- bounds
\* Longest token / invoice value of the generated challenge headers.
MaxValLen == 2
\* Most listener callbacks delivered during one invocation.
MaxEvents == 2

\* ------------------------------------------------------ character strings
Max(S) == CHOOSE x \in S : \A y \in S : y <= x

Quote == "\""

L402sp == <<"L", "4", "0", "2", " ">>

KwToken == <<"t", "o", "k", "e", "n">>

KwMacaroon == <<"m", "a", "c", "a", "r", "o", "o", "n">>

EqQuote == <<"=", Quote>>

\* The literal  ", invoice="  between the two capture groups.
SepLit == <<Quote, ",", " ", "i", "n", "v", "o", "i", "c", "e", "=", Quote>>

\* s has the literal lit at position i (1-based).
StartsWith(s, i, lit) ==
    /\ i >= 1
    /\ i + Len(lit) - 1 <= Len(s)
    /\ \A k \in 1..Len(lit) : s[i + k - 1] = lit[k]

\* The regex atom '.' : any character except a line feed.
Dot(c) == c # "\n"

AllDot(s, from, to) == \A k \in from..to : Dot(s[k])

\* First position of the token group: just after  ^L402 (token|macaroon)="
\* or 0 when the anchored prefix does not match.
TokenStart(h) ==
    IF StartsWith(h, 1, L402sp \o KwToken \o EqQuote)
    THEN Len(L402sp \o KwToken \o EqQuote) + 1
    ELSE IF StartsWith(h, 1, L402sp \o KwMacaroon \o EqQuote)
         THEN Len(L402sp \o KwMacaroon \o EqQuote) + 1
         ELSE 0

\* Positions q of a closing quote that can end the invoice group when the
\* separator literal starts at e.
CloseQuotes(h, e) ==
    {q \in (e + Len(SepLit))..Len(h) :
        h[q] = Quote /\ AllDot(h, e + Len(SepLit), q - 1)}

\* Positions e where the separator literal can follow the token group.
SepStarts(h) ==
    LET p == TokenStart(h)
    IN  IF p = 0 THEN {}
        ELSE {e \in p..Len(h) :
                 /\ StartsWith(h, e, SepLit)
                 /\ AllDot(h, p, e - 1)
                 /\ CloseQuotes(h, e) # {}}

NoCaps == [ok |-> FALSE, token |-> <<>>, invoice |-> <<>>]

\* A lenient parser: an unmatched header yields empty captures.
CapturesLenient(h) ==
    LET E == SepStarts(h)
    IN  IF E = {} THEN [ok |-> TRUE, token |-> <<>>, invoice |-> <<>>]
        ELSE LET e == Max(E)
                 q == Max(CloseQuotes(h, e))
             IN  [ok      |-> TRUE,
                  token   |-> SubSeq(h, TokenStart(h), e - 1),
                  invoice |-> SubSeq(h, e + Len(SepLit), q - 1)]

\* re.captures(l402header): both groups are greedy, so the token group ends
\* at the last separator that still leaves a closing quote, and the invoice
\* group ends at the last quote of the header.  The pattern has no '$'.
Captures(h) ==
    LET E == SepStarts(h)
    IN  IF E = {} THEN NoCaps
        ELSE LET e == Max(E)
                 q == Max(CloseQuotes(h, e))
             IN  [ok      |-> TRUE,
                  token   |-> SubSeq(h, TokenStart(h), e - 1),
                  invoice |-> SubSeq(h, e + Len(SepLit), q - 1)]

\* HeaderValue::to_str : fails unless every byte is visible ASCII.
NonAscii == {"\\x80"}

ToStrOk(v) == \A k \in 1..Len(v) : v[k] \notin NonAscii

\* ------------------------------------------------- inputs: header values
\* All sequences over S of length at most n.
RECURSIVE SeqsUpTo(_, _)
SeqsUpTo(S, n) ==
    IF n = 0 THEN {<<>>}
    ELSE LET shorter == SeqsUpTo(S, n - 1)
         IN  shorter \cup {Append(s, c) : s \in {t \in shorter : Len(t) = n - 1}, c \in S}

ValAlphabet == {"a", "b", Quote}

Vals == SeqsUpTo(ValAlphabet, MaxValLen)

Pres == {L402sp, <<"L", "4", "0", "2">>, <<"l", "4", "0", "2", " ">>}

Kws == {KwToken, KwMacaroon, <<"k", "e", "y">>}

\* The separator, the separator without its space, and a header that
\* repeats the invoice parameter.
Seps == {SepLit,
         <<Quote, ",", "i", "n", "v", "o", "i", "c", "e", "=", Quote>>,
         SepLit \o <<"c">> \o SepLit}

Closes == {<<Quote>>, <<>>}

Trails == {<<>>, <<"x">>}

Garbage == L402sp \o <<"g", "a", "r", "b", "a", "g", "e">>

Build(pres, kws, vs, seps, closes, trails) ==
    {p \o k \o EqQuote \o t \o s \o i \o c \o r :
        p \in pres, k \in kws, t \in vs, s \in seps, i \in vs,
        c \in closes, r \in trails}

\* Header values the challenge parser is exercised on.
Headers == Build(Pres, Kws, Vals, Seps, Closes, Trails) \cup {Garbage}

\* A response header: missing, or present with its raw value.
Absent == [present |-> FALSE, val |-> <<>>]

Present(v) == [present |-> TRUE, val |-> v]

\* The smaller family of first responses the whole exchange is run on.
XVals == {<<"a">>, <<"b">>, <<"a", Quote>>}

XHeaders ==
    Build({L402sp, <<"l", "4", "0", "2", " ">>}, {KwToken, KwMacaroon}, XVals,
          {SepLit, <<Quote, ",", "i", "n", "v", "o", "i", "c", "e", "=", Quote>>},
          {<<Quote>>}, Trails)
    \cup {Garbage, <<"\\x80">>}

\* Headers of the retry response, which the code never reads.
RetryHeaders ==
    {Absent, Present(L402sp \o KwToken \o EqQuote \o <<"b">> \o SepLit \o <<"b", Quote>>)}

Statuses == {200, 402, 500}

Prompts == {"hi", "2+2"}

Preimages == {<<"d", "e">>, <<"f">>}

Bodies == {"completion"}

\* sdk.send_payment(..).await : Err, or Ok with details Ln { data } carrying
\* a preimage, or Ok with the other PaymentDetails variant.
PayResults ==
    {[kind |-> "Err", preimage |-> <<>>], [kind |-> "ClosedChannel", preimage |-> <<>>]}
    \cup {[kind |-> "Ln", preimage |-> p] : p \in Preimages}

NoPay == [kind |-> "none", preimage |-> <<>>]

\* parse(lnurl).await : Err, or Ok with one of the InputType variants.
ParseResults ==
    {[kind |-> k, max_withdrawable |-> 0] : k \in {"Err", "LnUrlPay", "Bolt11", "LnUrlAuth"}}
    \cup {[kind |-> "LnUrlWithdraw", max_withdrawable |-> m] : m \in {999, 2500}}

NoParse == [kind |-> "none", max_withdrawable |-> 0]

Commands ==
    {[name |-> "ChatGPT", arg |-> p] : p \in Prompts}
    \cup {[name |-> "LnUrlWithdraw", arg |-> "lnurl1"]}

\* BreezEvent variants and the ones on_event writes a log line for.
Events == {"NewBlock", "InvoicePaid", "Synced", "PaymentSucceed",
           "PaymentFailed", "BackupStarted", "BackupSucceeded", "BackupFailed"}

LoggedEvents == {"InvoicePaid", "PaymentSucceed", "PaymentFailed"}

\* ------------------------------------------------------ request building
Url == "http://178.21.114.20:8000/openai/v1/chat/completions"

NoReq == [model |-> "", messages |-> <<>>]

GptRequest(prompt) ==
    [model |-> "gpt-3.5-turbo",
     messages |-> <<[role |-> "user", content |-> prompt]>>]

\* .json(&req) : the serialised document, token by token.
RECURSIVE JsonMessages(_)
JsonMessages(ms) ==
    IF ms = <<>> THEN <<>>
    ELSE <<"{", "role", ":", Head(ms).role, ",", "content", ":", Head(ms).content, "}">>
         \o (IF Len(ms) > 1 THEN <<",">> ELSE <<>>) \o JsonMessages(Tail(ms))

Json(r) ==
    <<"{", "model", ":", r.model, ",", "messages", ":", "[">>
    \o JsonMessages(r.messages) \o <<"]", "}">>

NoAuth == [present |-> FALSE, val |-> <<>>]

FirstRequest(url, r) == [url |-> url, auth |-> NoAuth, body |-> Json(r)]

\* A credential with the two halves in the wrong order.
AuthHeaderSwapped(t, p) == L402sp \o p \o <<":">> \o t

\* format!("L402 {}:{}", token, lnpayresult.payment_preimage)
AuthHeader(t, p) == L402sp \o t \o <<":">> \o p

\* A retry that rebuilds the request without its messages.
RetryRequestEmptied(url, r, header) ==
    [url |-> url, auth |-> Present(header), body |-> Json([r EXCEPT !.messages = <<>>])]

RetryRequest(url, r, header) ==
    [url |-> url, auth |-> Present(header), body |-> Json(r)]

\* Accepts any Ok payment, whatever its details variant.
PaymentOkAnyVariant(r) == r.kind # "Err"

\* .unwrap() of the payment result, then the match on PaymentDetails::Ln.
PaymentOk(r) == r.kind = "Ln"

\* A client that goes back to the challenge on a second 402.
AfterRetryLoop(status) == IF status = 402 THEN "header" ELSE "text"

\* After the retry the code reads the status and the text, whatever they are.
AfterRetry(status) == "text"

IsWithdraw(r) == r.kind = "LnUrlWithdraw"

NoResp == [status |-> 0, hdr |-> Absent, body |-> ""]

\* -------------------------------------------------------------- actions
Init ==
    /\ command \in Commands
    /\ pc = "start"
    /\ outcome = "running"
    /\ req = NoReq
    /\ posts = <<>>
    /\ resps = <<>>
    /\ resp = NoResp
    /\ token = <<>>
    /\ invoice = <<>>
    /\ payresult = NoPay
    /\ pays = <<>>
    /\ text = ""
    /\ parsed = NoParse
    /\ withdrawals = <<>>
    /\ delivered = 0
    /\ listenerLog = 0

\* A panicking unwrap / expect / unreachable! ends the process.
Panic ==
    /\ pc' = "done"
    /\ outcome' = "panic"

exchangeVars == <<req, posts, resps, resp, token, invoice, payresult, pays, text>>

withdrawVars == <<parsed, withdrawals>>

listenerVars == <<delivered, listenerLog>>

\* connect().await : the environment variables, the mnemonic and the node
\* connection are all unwrapped.
Connect ==
    /\ pc = "start"
    /\ \/ Panic
       \/ /\ pc' = IF command.name = "ChatGPT" THEN "post1" ELSE "lsp"
          /\ UNCHANGED outcome
    /\ UNCHANGED <<command, exchangeVars, withdrawVars, listenerVars>>

\* Build the request and POST it without an Authorization header.
FirstPost ==
    /\ pc = "post1"
    /\ req' = GptRequest(command.arg)
    /\ posts' = Append(posts, FirstRequest(Url, req'))
    /\ \/ Panic /\ UNCHANGED <<resp, resps>>
       \/ \E st \in Statuses, h \in {Absent} \cup {Present(v) : v \in XHeaders},
             b \in Bodies :
            /\ resp' = [status |-> st, hdr |-> h, body |-> b]
            /\ resps' = Append(resps, resp')
            /\ pc' = "header"
            /\ UNCHANGED outcome
    /\ UNCHANGED <<command, token, invoice, payresult, pays, text,
                   withdrawVars, listenerVars>>

\* Read WWW-Authenticate, convert it to a string and match the regex.
ReadChallenge ==
    /\ pc = "header"
    /\ IF ~resp.hdr.present \/ ~ToStrOk(resp.hdr.val) \/ ~Captures(resp.hdr.val).ok
       THEN Panic /\ UNCHANGED <<token, invoice>>
       ELSE /\ token' = Captures(resp.hdr.val).token
            /\ invoice' = Captures(resp.hdr.val).invoice
            /\ pc' = "pay"
            /\ UNCHANGED outcome
    /\ UNCHANGED <<command, req, posts, resps, resp, payresult, pays, text,
                   withdrawVars, listenerVars>>

\* Pay the invoice and take the Lightning details of the result.
SendPayment ==
    /\ pc = "pay"
    /\ pays' = Append(pays, invoice)
    /\ \E r \in PayResults :
        /\ payresult' = r
        /\ IF PaymentOk(r)
           THEN pc' = "retry" /\ UNCHANGED outcome
           ELSE Panic
    /\ UNCHANGED <<command, req, posts, resps, resp, token, invoice, text,
                   withdrawVars, listenerVars>>

\* POST again with the Authorization header.
RetryPost ==
    /\ pc = "retry"
    /\ posts' = Append(posts,
                       RetryRequest(Url, req, AuthHeader(token, payresult.preimage)))
    /\ \/ Panic /\ UNCHANGED <<resp, resps>>
       \/ \E st \in Statuses, h \in RetryHeaders, b \in Bodies :
            /\ resp' = [status |-> st, hdr |-> h, body |-> b]
            /\ resps' = Append(resps, resp')
            /\ pc' = AfterRetry(st)
            /\ UNCHANGED outcome
    /\ UNCHANGED <<command, req, token, invoice, payresult, pays, text,
                   withdrawVars, listenerVars>>

\* Log the status and the body text; the subcommand then ends normally.
ReadText ==
    /\ pc = "text"
    /\ \/ Panic /\ UNCHANGED text
       \/ /\ text' = resp.body
          /\ pc' = "done"
          /\ outcome' = "ok"
    /\ UNCHANGED <<command, req, posts, resps, resp, token, invoice, payresult,
                   pays, withdrawVars, listenerVars>>

\* sdk.lsp_id().await.unwrap().unwrap(); sdk.connect_lsp(..).await.unwrap()
ConnectLsp ==
    /\ pc = "lsp"
    /\ \/ Panic
       \/ pc' = "parse" /\ UNCHANGED outcome
    /\ UNCHANGED <<command, exchangeVars, withdrawVars, listenerVars>>

\* if let Ok(LnUrlWithdraw { data: wd }) = parse(lnurl).await
ParseLnurl ==
    /\ pc = "parse"
    /\ \E r \in ParseResults :
        /\ parsed' = r
        /\ pc' = IF IsWithdraw(r) THEN "withdraw" ELSE "pause"
    /\ UNCHANGED <<command, outcome, exchangeVars, withdrawals, listenerVars>>

\* sdk.lnurl_withdraw(wd, amount_msat / 1000, Some(description)).await.unwrap()
Withdraw ==
    /\ pc = "withdraw"
    /\ withdrawals' = Append(withdrawals,
                             [amount_sats |-> parsed.max_withdrawable \div 1000,
                              description |-> "Test withdraw"])
    /\ \/ Panic
       \/ pc' = "pause" /\ UNCHANGED outcome
    /\ UNCHANGED <<command, exchangeVars, parsed, listenerVars>>

\* pause() : flush stdout, read one byte; main then returns.
Pause ==
    /\ pc = "pause"
    /\ \/ Panic
       \/ pc' = "done" /\ outcome' = "ok"
    /\ UNCHANGED <<command, exchangeVars, withdrawVars, listenerVars>>

\* AppEventListener::on_event : logs three of the variants, ignores the rest.
OnEvent ==
    /\ pc \notin {"start", "done"}
    /\ delivered < MaxEvents
    /\ \E e \in Events :
        listenerLog' = IF e \in LoggedEvents THEN listenerLog + 1 ELSE listenerLog
    /\ delivered' = delivered + 1
    /\ UNCHANGED <<command, pc, outcome, exchangeVars, withdrawVars>>

Next ==
    \/ Connect
    \/ FirstPost
    \/ ReadChallenge
    \/ SendPayment
    \/ RetryPost
    \/ ReadText
    \/ ConnectLsp
    \/ ParseLnurl
    \/ Withdraw
    \/ Pause
    \/ OnEvent

Spec == Init /\ [][Next]_vars

\* ------------------------------------------ the challenge parser on its own
\* The exchange just after a first POST answered 402 with a header drawn
\* from Headers.
ParserInit ==
    /\ command = [name |-> "ChatGPT", arg |-> "hi"]
    /\ pc = "header"
    /\ outcome = "running"
    /\ req = GptRequest("hi")
    /\ posts = <<FirstRequest(Url, req)>>
    /\ \E v \in Headers : resp = [status |-> 402, hdr |-> Present(v), body |-> "completion"]
    /\ resps = <<resp>>
    /\ token = <<>>
    /\ invoice = <<>>
    /\ payresult = NoPay
    /\ pays = <<>>
    /\ text = ""
    /\ parsed = NoParse
    /\ withdrawals = <<>>
    /\ delivered = 0
    /\ listenerLog = 0

ParserNext == ReadChallenge

ParserSpec == ParserInit /\ [][ParserNext]_vars

\* ------------------------------------------------- vocabulary of the claims
\* h is in the language of the regular expression (Regex::is_match).
MatchesPattern(h) ==
    \E kw \in {KwToken, KwMacaroon} :
        LET pre == L402sp \o kw \o EqQuote
        IN  /\ StartsWith(h, 1, pre)
            /\ \E e \in (Len(pre) + 1)..Len(h) :
                 /\ StartsWith(h, e, SepLit)
                 /\ \E q \in (e + Len(SepLit))..Len(h) :
                      h[q] = Quote /\ AllDot(h, Len(pre) + 1, q)

NoQuote(h, from, to) == \A k \in from..to : h[k] # Quote

\* h is exactly  L402 kw="T", invoice="I"  with the separator at e and no
\* double quote inside T or I.
StrictAt(h, kw, e) ==
    LET pre == L402sp \o kw \o EqQuote
    IN  /\ StartsWith(h, 1, pre)
        /\ e > Len(pre)
        /\ StartsWith(h, e, SepLit)
        /\ Len(h) >= e + Len(SepLit)
        /\ h[Len(h)] = Quote
        /\ NoQuote(h, Len(pre) + 1, e - 1)
        /\ NoQuote(h, e + Len(SepLit), Len(h) - 1)

StrictForm(h) ==
    \E kw \in {KwToken, KwMacaroon}, e \in 1..Len(h) : StrictAt(h, kw, e)

\* The (TOKEN, INVOICE) pair of a header in strict form.
StrictPair(h) ==
    LET kw == CHOOSE k \in {KwToken, KwMacaroon} : \E e \in 1..Len(h) : StrictAt(h, k, e)
        e  == CHOOSE x \in 1..Len(h) : StrictAt(h, kw, x)
    IN  <<SubSeq(h, Len(L402sp \o kw \o EqQuote) + 1, e - 1),
          SubSeq(h, e + Len(SepLit), Len(h) - 1)>>

\* No challenge comes out of the header: it is missing, not a string, or
\* outside the pattern.
NoParsedChallenge(hdr) ==
    \/ ~hdr.present
    \/ ~ToStrOk(hdr.val)
    \/ ~MatchesPattern(hdr.val)

InExchange == command.name = "ChatGPT" /\ Len(resps) >= 1

\* ------------------------------------------------------------------ claims
\* C1: status gating. If the first POST is answered 200 the response is
\* returned as it is and send_payment is never called; if it is answered 402
\* with a well-formed challenge, send_payment is called exactly once in the
\* whole execution.
C1_StatusGating ==
    InExchange =>
      /\ resps[1].status = 200 =>
           /\ pays = <<>>
           /\ Len(posts) = 1
           /\ pc = "done" => outcome = "ok" /\ text = resps[1].body
      /\ (/\ resps[1].status = 402
          /\ resps[1].hdr.present
          /\ StrictForm(resps[1].hdr.val)
          /\ pc = "done") => Len(pays) = 1

\* C2: a first response whose status is neither 200 nor 402 makes the
\* exchange fail at once: no invoice is paid and no retry POST is issued,
\* whatever headers the response carries.
C2_UnexpectedStatus ==
    (InExchange /\ resps[1].status \notin {200, 402}) =>
      /\ pays = <<>>
      /\ Len(posts) = 1
      /\ pc \notin {"pay", "retry", "text"}
      /\ pc = "done" => outcome = "panic"

\* C3: when the authenticated retry is answered 402 again the exchange ends
\* in a failure, after exactly two POSTs and exactly one payment.
C3_CredentialRejected ==
    (InExchange /\ Len(resps) = 2 /\ resps[2].status = 402 /\ pc = "done") =>
      /\ outcome = "panic"
      /\ Len(posts) = 2
      /\ Len(pays) = 1

\* C4: the retry POST is issued only after send_payment returned a
\* Lightning result carrying a preimage; when send_payment returns an error
\* or another variant the exchange fails with exactly one POST issued.
C4_Sequencing ==
    /\ Len(posts) >= 2 =>
         /\ payresult.kind = "Ln"
         /\ payresult.preimage \in Preimages
         /\ Len(pays) = 1
    /\ payresult.kind \in {"Err", "ClosedChannel"} =>
         /\ pc = "done"
         /\ outcome = "panic"
         /\ Len(posts) = 1

C4_Witness ==
    /\ Len(posts) = 2
    /\ payresult.kind = "Ln"
    /\ Len(pays) = 1

C6_ParserTotality ==
    (InExchange /\ pc # "header" /\ resps[1].hdr.present /\ ToStrOk(resps[1].hdr.val)) =>
      IF StrictForm(resps[1].hdr.val)
      THEN /\ outcome # "panic" \/ pays # <<>>
           /\ <<token, invoice>> = StrictPair(resps[1].hdr.val)
      ELSE /\ pc = "done"
           /\ outcome = "panic"
           /\ pays = <<>>

\* C7: the first POST carries no Authorization header; the Authorization
\* header of a retry POST is exactly "L402 T:P", T the token parsed from the
\* first response's challenge and P the preimage send_payment returned for
\* the invoice of that same challenge.
C7_Credential ==
    /\ Len(posts) >= 1 => ~posts[1].auth.present
    /\ Len(posts) >= 2 =>
         /\ posts[2].auth.present
         /\ posts[2].auth.val =
              <<"L", "4", "0", "2", " ">> \o token \o <<":">> \o payresult.preimage
         /\ token = Captures(resps[1].hdr.val).token
         /\ pays = <<Captures(resps[1].hdr.val).invoice>>
         /\ payresult.kind = "Ln"

C7_Witness ==
    /\ Len(posts) = 2
    /\ token = <<"a">>
    /\ payresult.preimage = <<"d", "e">>
    /\ posts[2].auth.val = <<"L", "4", "0", "2", " ", "a", ":", "d", "e">>

\* C8: the body (and URL) of a retry POST equal those of the first POST,
\* and nothing between the two attempts changes the request.
C8_BodyPreserved ==
    /\ (Len(posts) >= 1 /\ pc \in {"header", "pay", "retry"}) =>
         Json(req) = posts[1].body
    /\ Len(posts) >= 2 =>
         /\ posts[2].body = posts[1].body
         /\ posts[2].url = posts[1].url

C8_Witness ==
    /\ Len(posts) = 2
    /\ posts[2].body = Json(GptRequest("2+2"))
    /\ listenerLog > 0

\* C9: one invocation issues at most two POSTs; a 402 on the retry never
\* leads back to the pay or retry steps.
C9_AtMostOneRetry ==
    /\ Len(posts) <= 2
    /\ Len(pays) <= 1
    /\ Len(resps) = 2 => pc \in {"text", "done"}

C9_Witness ==
    /\ Len(resps) = 2
    /\ resps[2].status = 402
    /\ resps[2].hdr.present
    /\ StrictForm(resps[2].hdr.val)
    /\ pc = "done"

\* C10: lnurl-withdraw ends with an error when parsing the LNURL yields
\* anything but the LnUrlWithdraw variant, and withdraws only for that
\* variant.
C10_UnsupportedLnurl ==
    /\ (command.name = "LnUrlWithdraw" /\ parsed.kind \notin {"none", "LnUrlWithdraw"}) =>
         /\ outcome # "ok"
         /\ pc = "done" => outcome = "panic"
    /\ withdrawals # <<>> => parsed.kind = "LnUrlWithdraw"

====
